---- MODULE Spec2Model ----
(***************************************************************************)
(* Model of package java (src/java.go) and its process layer               *)
(* (src/internal/exec.go).                                                 *)
(*                                                                         *)
(* Go strings are modelled as sequences of one-character strings, so that  *)
(* strings.HasPrefix, strings.HasSuffix, filepath.Join and the             *)
(* concatenation in updateCP are computed character by character.          *)
(***************************************************************************)
EXTENDS Integers, Sequences, FiniteSets, TLC

\* ------------------------------------------------------------------ bounds
\* longest command line handed to ParseCmd / Exec / Out
MaxTokens == 3
\* Extract is called only while CLASSPATH holds fewer entries than this
MaxCPEntries == 2
\* longest package prefix of the class strings handed to Class2Path
MaxClassLen == 3
\* number of goroutines that call Extract at the same time
NumCallers == 2

\* ----------------------------------------------------------- string values
Empty == <<>>
Dash == <<"-">>
Slash == <<"/">>
Dot == <<".">>
DotDot == <<".", ".">>
\* os.PathListSeparator on the platforms where os.PathSeparator is '/'
PathListSeparator == <<":">>
JavaSuffix == <<".", "j", "a", "v", "a">>
JarSuffix == <<".", "j", "a", "r">>
JavaExe == <<"j", "a", "v", "a">>

OptX == <<"-", "x">>
OptY == <<"-", "y">>
ClassA == <<"A">>
JarA == <<"a", ".", "j", "a", "r">>
UpJarA == <<".", ".", "/", "c", "/", "a", ".", "j", "a", "r">>
DirC == <<"/", "c">>
LibL == <<"l">>
DotClass == <<".", "c", "l", "a", "s", "s">>
SlashClass == <<"/", "c", "l", "a", "s", "s">>
BackslashClass == <<"\\", "c", "l", "a", "s", "s">>
JavaH == <<"h", ".", "j", "a", "v", "a">>
ClassFileA == <<"A", ".", "c", "l", "a", "s", "s">>

\* the tokens a command line is built from
Tokens == {Empty, OptX, OptY, ClassA, JarA}
\* the values CacheDir takes: "" when os.UserCacheDir fails, a directory else
Dirs == {Empty, DirC}
\* the names passed to Cached
FileNames == {Empty, ClassA, JarA, UpJarA}
\* the files of the embedded file system handed to Extract
Embedded == {JarA}
\* the values CLASSPATH has when the program starts
InitialCP == {Empty, LibL}

RECURSIVE SeqsUpTo(_, _)
SeqsUpTo(S, n) ==
    IF n = 0 THEN {<<>>}
    ELSE LET shorter == SeqsUpTo(S, n - 1)
         IN shorter \cup {Append(s, x) : s \in {t \in shorter : Len(t) = n - 1}, x \in S}

CmdLines == SeqsUpTo(Tokens, MaxTokens)

\* the values of os.PathSeparator: '/' on Unix, '\\' on Windows
Separators == {"/", "\\"}
\* the class strings handed to Class2Path
ClassNames ==
    {prefix \o suffix : prefix \in SeqsUpTo({"A", "."}, MaxClassLen),
                        suffix \in {Empty, DotClass, SlashClass, BackslashClass}}
\* the main targets handed to Exec and Out: no name, a class name, a jar, a
\* java source file and a class file
Targets == {Empty, ClassA, JarA, JavaH, ClassFileA}
\* the command lines around a main target: alone, and between an option and
\* an argument
TargetLines == {<<t>> : t \in Targets} \cup {<<OptX, t, OptY>> : t \in Targets}
\* the goroutines that call Extract at the same time
Callers == 1..NumCallers

\* ---------------------------------------------------------- strings package
HasPrefix(s, p) == Len(s) >= Len(p) /\ SubSeq(s, 1, Len(p)) = p

HasSuffix(s, p) == Len(s) >= Len(p) /\ SubSeq(s, Len(s) - Len(p) + 1, Len(s)) = p

\* ------------------------------------------------------------ path/filepath
\* the elements of s between occurrences of the character ch, empty ones included
RECURSIVE Split(_, _)
Split(s, ch) ==
    IF \A k \in 1..Len(s) : s[k] # ch THEN <<s>>
    ELSE LET k == CHOOSE j \in 1..Len(s) : s[j] = ch /\ \A m \in 1..(j - 1) : s[m] # ch
         IN <<SubSeq(s, 1, k - 1)>> \o Split(SubSeq(s, k + 1, Len(s)), ch)

RECURSIVE JoinSlash(_)
JoinSlash(elems) ==
    IF elems = <<>> THEN <<>>
    ELSE IF Len(elems) = 1 THEN elems[1]
    ELSE elems[1] \o Slash \o JoinSlash(Tail(elems))

\* the element stack of filepath.Clean after reading elems
RECURSIVE CleanElems(_, _, _)
CleanElems(elems, out, rooted) ==
    IF elems = <<>> THEN out
    ELSE LET e == Head(elems)
             rest == Tail(elems)
         IN IF e = Empty \/ e = Dot THEN CleanElems(rest, out, rooted)
            ELSE IF e = DotDot
                 THEN IF out # <<>> /\ out[Len(out)] # DotDot
                      THEN CleanElems(rest, SubSeq(out, 1, Len(out) - 1), rooted)
                      ELSE IF rooted THEN CleanElems(rest, out, rooted)
                      ELSE CleanElems(rest, Append(out, e), rooted)
                 ELSE CleanElems(rest, Append(out, e), rooted)

Clean(path) ==
    IF path = Empty THEN Dot
    ELSE LET rooted == path[1] = "/"
             body == JoinSlash(CleanElems(Split(path, "/"), <<>>, rooted))
         IN IF rooted THEN Slash \o body
            ELSE IF body = Empty THEN Dot ELSE body

\* filepath.Join of two elements
Join(a, b) ==
    IF a # Empty THEN Clean(a \o Slash \o b)
    ELSE IF b # Empty THEN Clean(b)
    ELSE Empty

\* the paths the model's file system can hold
Paths == {Join(d, f) : d \in Dirs, f \in Embedded} \cup {Clean(d) : d \in Dirs \ {Empty}}

\* -------------------------------------------------------------------- state
VARIABLES
    CacheDir,    \* package variable CacheDir
    CLASSPATH,   \* environment variable CLASSPATH
    files,       \* the paths at which a file system entry exists
    pc,          \* "idle", "loop" (in the range loop of ParseCmd) or "done"
    fn,          \* the exported function of the latest call
    cmd,         \* its argument
    idx,         \* ParseCmd: index of the next token of the range loop
    c,           \* ParseCmd: the Cmd under construction
    dest,        \* ParseCmd: the branch each token read so far has taken
    proc,        \* what the latest Exec / Out did at the process layer
    ret,         \* return value of the latest Cached / error of Extract
    PathSeparator, \* os.PathSeparator of the platform the package is built for
    gpc,         \* concurrent Extract: the position of each goroutine
    gval,        \* concurrent Extract: the CLASSPATH value each goroutine has read
    cp0          \* the value of CLASSPATH when the program started

\* the state only Class2Path and the concurrent callers of Extract use
others == <<PathSeparator, gpc, gval, cp0>>

vars == <<CacheDir, CLASSPATH, files, pc, fn, cmd, idx, c, dest, proc, ret, others>>

NewCmd == [Name |-> Empty, Options |-> <<>>, Args |-> <<>>]

NoProc == [argv |-> <<>>, spawned |-> FALSE, err |-> FALSE, logged |-> FALSE]

Init ==
    /\ CacheDir \in Dirs
    /\ CLASSPATH \in InitialCP
    /\ files \in {S \in SUBSET Paths : \A p \in S : HasPrefix(p, DirC \o Slash) => DirC \in S}
    /\ pc = "idle"
    /\ fn = "none"
    /\ cmd = <<>>
    /\ idx = 1
    /\ c = NewCmd
    /\ dest = <<>>
    /\ proc = NoProc
    /\ ret = Empty
    /\ PathSeparator = "/"
    /\ gpc = [g \in Callers |-> "start"]
    /\ gval = [g \in Callers |-> Empty]
    /\ cp0 = CLASSPATH

\* ------------------------------------------------------------------ ParseCmd
\* ParseBranch with the dash test made before, and independently of, the Name test
ParseBranch_DashFirst(cur, it) ==
    IF HasPrefix(it, Dash) THEN "Options"
    ELSE IF cur.Name = Empty THEN "Name"
    ELSE "Args"

\* ParseBranch testing for a double dash: a single-dash token is taken as Name
ParseBranch_DoubleDash(cur, it) ==
    IF ~HasPrefix(it, Dash \o Dash) /\ cur.Name = Empty THEN "Name"
    ELSE IF cur.Name = Empty THEN "Options"
    ELSE "Args"

\* the branch of the loop body that the token it takes
ParseBranch(cur, it) ==
    IF ~HasPrefix(it, Dash) /\ cur.Name = Empty THEN "Name"
    ELSE IF cur.Name = Empty THEN "Options"
    ELSE "Args"

\* ParseStep putting a new argument in front of Args instead of behind
ParseStep_PrependArgs(cur, it) ==
    CASE ParseBranch(cur, it) = "Name" -> [cur EXCEPT !.Name = it]
      [] ParseBranch(cur, it) = "Options" -> [cur EXCEPT !.Options = Append(@, it)]
      [] OTHER -> [cur EXCEPT !.Args = <<it>> \o @]

\* one iteration of the range loop
ParseStep(cur, it) ==
    CASE ParseBranch(cur, it) = "Name" -> [cur EXCEPT !.Name = it]
      [] ParseBranch(cur, it) = "Options" -> [cur EXCEPT !.Options = Append(@, it)]
      [] OTHER -> [cur EXCEPT !.Args = Append(@, it)]

\* the whole pass
RECURSIVE ParseFrom(_, _)
ParseFrom(cur, tokens) ==
    IF tokens = <<>> THEN cur
    ELSE ParseFrom(ParseStep(cur, Head(tokens)), Tail(tokens))

ParseCmd(tokens) == ParseFrom(NewCmd, tokens)

\* -------------------------------------------------------------------- cache
Exists(path) == path \in files

\* Cached without the existence test
Cached_NoExists(file) == Join(CacheDir, file)

Cached(file) ==
    LET path == Join(CacheDir, file)
    IN IF Exists(path) THEN path ELSE Empty

\* updateCP putting CacheDir behind the old value instead of in front
updateCP_Append(cp) ==
    IF cp = Empty THEN CacheDir
    ELSE cp \o PathListSeparator \o CacheDir

updateCP(cp) ==
    IF cp = Empty THEN CacheDir
    ELSE CacheDir \o PathListSeparator \o cp

\* the value updateCP writes when the first Getenv was not empty, forgetting
\* the old value
Prepended_DropsOld(old) == CacheDir

\* the value updateCP writes when the first Getenv was not empty: CacheDir in
\* front of old, the value its second Getenv returned
Prepended(old) == CacheDir \o PathListSeparator \o old

\* the entries fs.ExtractEmbed writes below CacheDir
Extracted(emb) == {Join(CacheDir, f) : f \in emb} \cup (IF CacheDir = Empty THEN {} ELSE {Clean(CacheDir)})

\* ------------------------------------------------------------- process layer
InternalExec(args, found, exitErr) ==
    IF Len(args) = 0 THEN [argv |-> args, spawned |-> FALSE, err |-> TRUE, logged |-> FALSE]
    ELSE IF ~found THEN [argv |-> args, spawned |-> FALSE, err |-> TRUE, logged |-> FALSE]
    ELSE [argv |-> args, spawned |-> TRUE, err |-> exitErr, logged |-> FALSE]

InternalOut(args, found, exitErr) ==
    IF Len(args) = 0 THEN [argv |-> args, spawned |-> FALSE, err |-> FALSE, logged |-> TRUE]
    ELSE IF ~found THEN [argv |-> args, spawned |-> FALSE, err |-> FALSE, logged |-> TRUE]
    ELSE [argv |-> args, spawned |-> TRUE, err |-> FALSE, logged |-> exitErr]

\* ExecArgs taking the cached path whatever the suffix of Name is
ExecArgs_NoSuffixTest(parsed) ==
    LET cached == Cached(parsed.Name)
        main == IF cached # Empty THEN cached ELSE parsed.Name
    IN <<JavaExe>> \o parsed.Options \o <<main>> \o parsed.Args

\* the argument vector Exec builds from the parsed command line
ExecArgs(parsed) ==
    LET cached == Cached(parsed.Name)
        main == IF (HasSuffix(parsed.Name, JavaSuffix) \/ HasSuffix(parsed.Name, JarSuffix))
                   /\ cached # Empty
                THEN cached ELSE parsed.Name
    IN <<JavaExe>> \o parsed.Options \o <<main>> \o parsed.Args

\* the argument vector Out builds from the parsed command line
OutArgs(parsed) ==
    LET cached == Cached(parsed.Name)
        main == IF HasSuffix(parsed.Name, JavaSuffix) \/ HasSuffix(parsed.Name, JarSuffix)
                THEN (IF cached # Empty THEN cached ELSE parsed.Name)
                ELSE parsed.Name
    IN <<JavaExe>> \o parsed.Options \o <<main>> \o parsed.Args

\* --------------------------------------------------------------- Class2Path
\* strings.Replace(s, ".", string(os.PathSeparator), -1)
ReplaceDots(s) == [k \in 1..Len(s) |-> IF s[k] = "." THEN PathSeparator ELSE s[k]]

Class2Path(cl) ==
    LET replaced == ReplaceDots(cl)
    IN IF HasSuffix(replaced, SlashClass)
       THEN SubSeq(replaced, 1, Len(replaced) - 6) \o DotClass
       ELSE replaced \o DotClass

\* ------------------------------------------------------------------ actions
Enter(f, tokens) ==
    /\ pc' = "loop"
    /\ fn' = f
    /\ cmd' = tokens
    /\ idx' = 1
    /\ c' = NewCmd
    /\ dest' = <<>>
    /\ proc' = NoProc
    /\ ret' = Empty
    /\ UNCHANGED <<CacheDir, CLASSPATH, files, others>>

\* a caller invokes ParseCmd(tokens...): the range loop starts
ParseCmdCall ==
    /\ pc = "idle"
    /\ \E tokens \in CmdLines : Enter("ParseCmd", tokens)

\* one iteration of the range loop of ParseCmd
ParseCmdIter ==
    /\ pc = "loop"
    /\ idx <= Len(cmd)
    /\ c' = ParseStep(c, cmd[idx])
    /\ dest' = Append(dest, ParseBranch(c, cmd[idx]))
    /\ idx' = idx + 1
    /\ UNCHANGED <<CacheDir, CLASSPATH, files, pc, fn, cmd, proc, ret, others>>

\* the range loop is over: ParseCmd returns c
ParseCmdReturn ==
    /\ pc = "loop"
    /\ idx > Len(cmd)
    /\ pc' = "done"
    /\ UNCHANGED <<CacheDir, CLASSPATH, files, fn, cmd, idx, c, dest, proc, ret, others>>

\* the locals of a call made from outside the package
Leave(f, arg, parsed, did, result) ==
    /\ pc' = "done"
    /\ fn' = f
    /\ cmd' = arg
    /\ idx' = 1
    /\ c' = parsed
    /\ dest' = <<>>
    /\ proc' = did
    /\ ret' = result
    /\ UNCHANGED others

\* a caller invokes Exec(tokens...)
Exec ==
    /\ pc = "idle"
    /\ \E tokens \in CmdLines : \E found, exitErr \in BOOLEAN :
        Leave("Exec", tokens, ParseCmd(tokens),
                 InternalExec(ExecArgs(ParseCmd(tokens)), found, exitErr), Empty)
    /\ UNCHANGED <<CacheDir, CLASSPATH, files>>

\* a caller invokes Out(tokens...)
Out ==
    /\ pc = "idle"
    /\ \E tokens \in CmdLines : \E found, exitErr \in BOOLEAN :
        Leave("Out", tokens, ParseCmd(tokens),
                 InternalOut(OutArgs(ParseCmd(tokens)), found, exitErr), Empty)
    /\ UNCHANGED <<CacheDir, CLASSPATH, files>>

\* a caller invokes Cached(file)
CachedCall ==
    /\ pc = "idle"
    /\ \E file \in FileNames : Leave("Cached", <<file>>, NewCmd, NoProc, Cached(file))
    /\ UNCHANGED <<CacheDir, CLASSPATH, files>>

\* Extract(fsys, root) with fs.ExtractEmbed succeeding
ExtractOk ==
    /\ pc = "idle"
    /\ Len(Split(CLASSPATH, ":")) < MaxCPEntries
    /\ \E emb \in SUBSET Embedded :
        /\ Leave("Extract", <<>>, NewCmd, NoProc, <<"nil">>)
        /\ files' = files \cup Extracted(emb)
        /\ CLASSPATH' = updateCP(CLASSPATH)
    /\ UNCHANGED CacheDir

\* Extract(fsys, root) with fs.ExtractEmbed failing, after writing part of the files
ExtractErr ==
    /\ pc = "idle"
    /\ \E emb \in SUBSET Embedded : \E written \in SUBSET Extracted(emb) :
        /\ Leave("Extract", <<>>, NewCmd, NoProc, <<"err">>)
        /\ files' = files \cup written
    /\ UNCHANGED <<CacheDir, CLASSPATH>>

\* a caller assigns the exported variable CacheDir
SetCacheDir ==
    /\ pc = "idle"
    /\ \E d \in Dirs : CacheDir' = d /\ Leave("SetCacheDir", <<d>>, NewCmd, NoProc, Empty)
    /\ UNCHANGED <<CLASSPATH, files>>

\* a caller removes the cache directory, as the examples do on return
RemoveAll ==
    /\ pc = "idle"
    /\ CacheDir # Empty
    /\ Leave("RemoveAll", <<CacheDir>>, NewCmd, NoProc, Empty)
    /\ files' = {p \in files : p # Clean(CacheDir) /\ ~HasPrefix(p, Clean(CacheDir) \o Slash)}
    /\ UNCHANGED <<CacheDir, CLASSPATH>>

\* the call returns: its locals and its result go out of scope
Return ==
    /\ pc = "done"
    /\ pc' = "idle"
    /\ fn' = "none"
    /\ cmd' = <<>>
    /\ idx' = 1
    /\ c' = NewCmd
    /\ dest' = <<>>
    /\ proc' = NoProc
    /\ ret' = Empty
    /\ UNCHANGED <<CacheDir, CLASSPATH, files, others>>

Next ==
    \/ Exec
    \/ Out
    \/ CachedCall
    \/ ExtractOk
    \/ ExtractErr
    \/ SetCacheDir
    \/ RemoveAll
    \/ Return

Spec == Init /\ [][Next]_vars

\* ParseCmd on its own: a pure function, run token by token on every command line
InitParse ==
    /\ Init
    /\ CacheDir = DirC
    /\ CLASSPATH = Empty
    /\ files = {}

NextParse ==
    \/ ParseCmdCall
    \/ ParseCmdIter
    \/ ParseCmdReturn
    \/ Return

SpecParse == InitParse /\ [][NextParse]_vars

\* ------------------------------------------------- concurrent calls of Extract
\* the variables of a single sequential caller
callvars == <<pc, fn, cmd, idx, c, dest, proc, ret>>

\* goroutine g: os.MkdirAll and fs.ExtractEmbed succeed, updateCP is entered
GoExtractOk(g) ==
    /\ gpc[g] = "start"
    /\ \E emb \in SUBSET Embedded : files' = files \cup Extracted(emb)
    /\ gpc' = [gpc EXCEPT ![g] = "check"]
    /\ UNCHANGED <<CacheDir, CLASSPATH, callvars, PathSeparator, gval, cp0>>

\* goroutine g: fs.ExtractEmbed fails and Extract returns the error
GoExtractErr(g) ==
    /\ gpc[g] = "start"
    /\ \E emb \in SUBSET Embedded : \E written \in SUBSET Extracted(emb) :
        files' = files \cup written
    /\ gpc' = [gpc EXCEPT ![g] = "failed"]
    /\ UNCHANGED <<CacheDir, CLASSPATH, callvars, PathSeparator, gval, cp0>>

\* goroutine g: updateCP tests os.Getenv("CLASSPATH") == ""
GoCheck(g) ==
    /\ gpc[g] = "check"
    /\ gpc' = [gpc EXCEPT ![g] = IF CLASSPATH = Empty THEN "setdir" ELSE "read"]
    /\ UNCHANGED <<CacheDir, CLASSPATH, files, callvars, PathSeparator, gval, cp0>>

\* goroutine g: updateCP sets CLASSPATH to CacheDir and returns
GoSetDir(g) ==
    /\ gpc[g] = "setdir"
    /\ CLASSPATH' = CacheDir
    /\ gpc' = [gpc EXCEPT ![g] = "done"]
    /\ UNCHANGED <<CacheDir, files, callvars, PathSeparator, gval, cp0>>

\* goroutine g: updateCP evaluates the second os.Getenv("CLASSPATH")
GoRead(g) ==
    /\ gpc[g] = "read"
    /\ gval' = [gval EXCEPT ![g] = CLASSPATH]
    /\ gpc' = [gpc EXCEPT ![g] = "write"]
    /\ UNCHANGED <<CacheDir, CLASSPATH, files, callvars, PathSeparator, cp0>>

\* goroutine g: updateCP sets CLASSPATH to the concatenation and returns
GoWrite(g) ==
    /\ gpc[g] = "write"
    /\ CLASSPATH' = Prepended(gval[g])
    /\ gpc' = [gpc EXCEPT ![g] = "done"]
    /\ UNCHANGED <<CacheDir, files, callvars, PathSeparator, gval, cp0>>

NextRace ==
    \E g \in Callers :
        \/ GoExtractOk(g)
        \/ GoExtractErr(g)
        \/ GoCheck(g)
        \/ GoSetDir(g)
        \/ GoRead(g)
        \/ GoWrite(g)

\* every goroutine of Callers calls Extract once, with no synchronisation
SpecRace == Init /\ [][NextRace]_vars

\* ------------------------------------------- Exec and Out on every main target
\* a caller invokes Exec on a command line around one of Targets
ExecTarget ==
    /\ pc = "idle"
    /\ \E tokens \in TargetLines : \E found, exitErr \in BOOLEAN :
        Leave("Exec", tokens, ParseCmd(tokens),
                 InternalExec(ExecArgs(ParseCmd(tokens)), found, exitErr), Empty)
    /\ UNCHANGED <<CacheDir, CLASSPATH, files>>

\* a caller invokes Out on a command line around one of Targets
OutTarget ==
    /\ pc = "idle"
    /\ \E tokens \in TargetLines : \E found, exitErr \in BOOLEAN :
        Leave("Out", tokens, ParseCmd(tokens),
                 InternalOut(OutArgs(ParseCmd(tokens)), found, exitErr), Empty)
    /\ UNCHANGED <<CacheDir, CLASSPATH, files>>

\* any cache content: each target may or may not have an entry below DirC
InitTarget ==
    /\ CacheDir \in Dirs
    /\ CLASSPATH = Empty
    /\ files \in SUBSET ({DirC} \cup {Join(DirC, t) : t \in Targets})
    /\ pc = "idle"
    /\ fn = "none"
    /\ cmd = <<>>
    /\ idx = 1
    /\ c = NewCmd
    /\ dest = <<>>
    /\ proc = NoProc
    /\ ret = Empty
    /\ PathSeparator = "/"
    /\ gpc = [g \in Callers |-> "start"]
    /\ gval = [g \in Callers |-> Empty]
    /\ cp0 = CLASSPATH

NextTarget ==
    \/ ExecTarget
    \/ OutTarget
    \/ Return

SpecTarget == InitTarget /\ [][NextTarget]_vars

\* a caller invokes Class2Path(cl)
Class2PathCall ==
    /\ pc = "idle"
    /\ \E cl \in ClassNames : Leave("Class2Path", <<cl>>, NewCmd, NoProc, Class2Path(cl))
    /\ UNCHANGED <<CacheDir, CLASSPATH, files>>

\* Class2Path on its own: a pure function of cl and os.PathSeparator, run on
\* every class string on each platform
InitClass ==
    /\ CacheDir = DirC
    /\ CLASSPATH = Empty
    /\ files = {}
    /\ pc = "idle"
    /\ fn = "none"
    /\ cmd = <<>>
    /\ idx = 1
    /\ c = NewCmd
    /\ dest = <<>>
    /\ proc = NoProc
    /\ ret = Empty
    /\ PathSeparator \in Separators
    /\ gpc = [g \in Callers |-> "start"]
    /\ gval = [g \in Callers |-> Empty]
    /\ cp0 = CLASSPATH

NextClass ==
    \/ Class2PathCall
    \/ Return

SpecClass == InitClass /\ [][NextClass]_vars

\* ================================================================ properties
\* s is obtained from t by deleting elements
RECURSIVE IsSubseq(_, _)
IsSubseq(s, t) ==
    IF s = <<>> THEN TRUE
    ELSE IF t = <<>> THEN FALSE
    ELSE IF Head(s) = Head(t) THEN IsSubseq(Tail(s), Tail(t))
    ELSE IsSubseq(s, Tail(t))

\* ParseCmd has returned its result for the command line cmd
Parsed == pc = "done" /\ fn = "ParseCmd"

\* the indices of the tokens of cmd that do not begin with a dash
NonDash == {j \in 1..Len(cmd) : ~HasPrefix(cmd[j], Dash)}

\* the indices of the tokens read so far that were assigned to Name
TakenAsName == {j \in 1..Len(dest) : dest[j] = "Name"}

\* Exec or Out has handed its argument vector to the process layer
Ran == pc = "done" /\ fn \in {"Exec", "Out"}

\* C1: every token of the input ends up in exactly one of Options, Name and
\* Args, so len(Options) + len(Args) + (1 if a token was taken as main, else 0)
\* is the number of input tokens.
C1_TokenCountPreserved ==
    Parsed => Len(c.Options) + Len(c.Args) + (IF TakenAsName # {} THEN 1 ELSE 0) = Len(cmd)

\* C2: the first token without a leading dash, at index i, is Name, Options is
\* the tokens before i and Args is the tokens after i.
C2_SplitAtFirstNonDash ==
    Parsed /\ NonDash # {} =>
        LET i == CHOOSE j \in NonDash : \A k \in NonDash : j <= k
        IN /\ c.Name = cmd[i]
           /\ c.Options = SubSeq(cmd, 1, i - 1)
           /\ c.Args = SubSeq(cmd, i + 1, Len(cmd))

\* C3: within one pass at most one token is assigned to Name.
C3_AtMostOneName == Cardinality(TakenAsName) <= 1

\* C4: once Name is a non-empty token, every iteration of the loop appends its
\* token to Args, whether or not it begins with a dash, and leaves Options and
\* Name as they are.
C4_AfterNameOnlyArgs ==
    [][(pc = "loop" /\ idx' = idx + 1 /\ c.Name # Empty) =>
          /\ c'.Args = Append(c.Args, cmd[idx])
          /\ c'.Options = c.Options
          /\ c'.Name = c.Name]_vars

\* C4 witness: a token beginning with a dash was read after Name was set and
\* is now an argument.
C4_Witness ==
    /\ pc = "loop"
    /\ c.Name # Empty
    /\ c.Options # <<>>
    /\ c.Args # <<>>
    /\ HasPrefix(c.Args[Len(c.Args)], Dash)

\* C5: Options and Args are subsequences of the tokens read so far: tokens of
\* one group keep the relative order they have in the input.
C5_OrderPreserved ==
    /\ IsSubseq(c.Options, SubSeq(cmd, 1, idx - 1))
    /\ IsSubseq(c.Args, SubSeq(cmd, 1, idx - 1))

\* C5 witness: a finished pass with two different arguments.
C5_Witness == Parsed /\ Len(c.Args) = 2 /\ c.Args[1] # c.Args[2]

\* C6: when every token of the input begins with a dash (the empty input
\* included), Name is empty, Args is empty and Options is the whole input.
C6_AllFlags ==
    Parsed /\ NonDash = {} => c.Name = Empty /\ c.Args = <<>> /\ c.Options = cmd

\* C6 witness: a finished pass over two different flags.
C6_Witness == Parsed /\ NonDash = {} /\ Len(cmd) = 2 /\ cmd[1] # cmd[2]

\* C7: when ParseCmd leaves Name empty, Exec and Out do not start java, and
\* Exec returns an error.
C7_NoTargetIsError ==
    Ran /\ c.Name = Empty => ~proc.spawned /\ (fn = "Exec" => proc.err)

\* C8: Exec and Out build the same vector, and it is "java" followed by the
\* input tokens in order, each unchanged except that the main target (the first
\* token without a leading dash) may be replaced by its cached path.
C8_ArgvIsInput ==
    Ran =>
        /\ ExecArgs(c) = OutArgs(c)
        /\ Len(proc.argv) = Len(cmd) + 1
        /\ proc.argv[1] = JavaExe
        /\ \A j \in 1..Len(cmd) :
            \/ proc.argv[j + 1] = cmd[j]
            \/ /\ j \in NonDash
               /\ \A k \in NonDash : j <= k
               /\ proc.argv[j + 1] = Join(CacheDir, cmd[j])

\* C9: Cached(file) returns the join of CacheDir and file when an entry exists
\* at that path and the empty string otherwise, and changes neither the file
\* system, CacheDir nor CLASSPATH.
C9_CachedResult ==
    [][(pc = "idle" /\ fn' = "Cached") =>
          LET joined == Join(CacheDir, cmd'[1])
          IN /\ joined \in files => ret' = joined
             /\ joined \notin files => ret' = Empty
             /\ files' = files
             /\ CacheDir' = CacheDir
             /\ CLASSPATH' = CLASSPATH]_vars

\* C9 witness: Cached has returned a path that differs from the plain
\* concatenation of CacheDir, separator and file.
C9_Witness ==
    /\ pc = "done"
    /\ fn = "Cached"
    /\ ret # Empty
    /\ ret # CacheDir \o Slash \o cmd[1]

\* C10: after an Extract that returns nil the entries of CLASSPATH are CacheDir
\* followed by the entries of the previous value (when it was not empty); an
\* Extract that returns an error leaves CLASSPATH unchanged.
C10_CacheDirFirst ==
    [][(pc = "idle" /\ fn' = "Extract") =>
          IF ret' = <<"nil">>
          THEN Split(CLASSPATH', ":") =
                   <<CacheDir>> \o (IF CLASSPATH = Empty THEN <<>> ELSE Split(CLASSPATH, ":"))
          ELSE CLASSPATH' = CLASSPATH]_vars

\* C10 witness: Extract has returned nil with a non-empty previous CLASSPATH
\* behind a non-empty CacheDir.
C10_Witness ==
    /\ pc = "done"
    /\ fn = "Extract"
    /\ ret = <<"nil">>
    /\ CacheDir # Empty
    /\ Len(Split(CLASSPATH, ":")) >= 2

\* Class2Path has returned ret for the class string cmd[1]
Pathed == pc = "done" /\ fn = "Class2Path"

\* C11: the result of Class2Path ends with ".class", holds no dot before that
\* suffix, keeps the suffix of an input that already ends in ".class" instead
\* of adding a second one, and is a fixed point of Class2Path, whatever
\* os.PathSeparator is.
C11_SuffixOnceAndIdempotent ==
    Pathed =>
        LET cl == cmd[1]
        IN /\ HasSuffix(ret, DotClass)
           /\ \A k \in 1..(Len(ret) - 6) : ret[k] # "."
           /\ HasSuffix(cl, DotClass) =>
                  ret = ReplaceDots(SubSeq(cl, 1, Len(cl) - 6)) \o DotClass
           /\ Class2Path(ret) = ret

\* every concurrent call of Extract has returned
Finished == \A g \in Callers : gpc[g] \in {"done", "failed"}

\* the goroutines whose Extract returned nil
Succeeded == {g \in Callers : gpc[g] = "done"}

\* CLASSPATH after n calls of updateCP made one after the other, starting from cp
RECURSIVE Serial(_, _)
Serial(n, cp) == IF n = 0 THEN cp ELSE updateCP(Serial(n - 1, cp))

\* C12: updateCP reads and writes CLASSPATH in separate steps with no lock, so
\* when concurrent calls of Extract have all returned, CLASSPATH holds the
\* result of at least one and at most all of the successful calls made one
\* after the other: it can fall short of the serial result (lost prepends), and
\* that is the only way it differs from it.
C12_LostPrepend ==
    Finished =>
        IF Succeeded = {} THEN CLASSPATH = cp0
        ELSE \E n \in 1..Cardinality(Succeeded) : CLASSPATH = Serial(n, cp0)

\* C12 witness: two concurrent calls of Extract have both returned nil and
\* CLASSPATH is not what the two calls give in either serial order: it holds
\* the prepend of one call only.
C12_Witness ==
    /\ Finished
    /\ Cardinality(Succeeded) = 2
    /\ CLASSPATH # Serial(2, cp0)
    /\ CLASSPATH = Serial(1, cp0)

\* the main target in the vector handed to java: the element behind the options
Target == proc.argv[Len(c.Options) + 2]

\* Name ends in ".java" or ".jar"
SourceOrJar == HasSuffix(c.Name, JavaSuffix) \/ HasSuffix(c.Name, JarSuffix)

\* C13: in Exec and Out the main target handed to java is the cached path
\* (the join of CacheDir and Name) when Name ends in ".java" or ".jar" and an
\* entry exists at that path; in every other case it is Name as given.
C13_TargetChoice ==
    Ran =>
        IF SourceOrJar /\ Join(CacheDir, c.Name) \in files
        THEN Target = Join(CacheDir, c.Name)
        ELSE Target = c.Name

\* C13 witness: a class file has an entry in the cache, and the target handed
\* to java is still the name the caller gave, between its option and argument.
C13_Witness ==
    /\ Ran
    /\ c.Name = ClassFileA
    /\ c.Options # <<>>
    /\ Join(CacheDir, c.Name) \in files
    /\ Target = ClassFileA

====
